---------------------------- MODULE Spec2Model ----------------------------
(***************************************************************************)
(* Model of the Nodo AI gateway: the dispatcher NodoAI (src/NodoAI.py)     *)
(* with its health sweep ping_moduli and its forwarder inoltra_richiesta,  *)
(* and the Flask listener around it (src/nodo_server.py).                  *)
(*                                                                         *)
(* Strings whose characters matter (URLs, endpoint paths) are sequences of *)
(* one-character strings.  A body text is modelled by its length and by    *)
(* whether it parses as JSON.  Python values that may be None, a dict or a *)
(* list are records [type, items].                                         *)
(***************************************************************************)
EXTENDS Integers, Sequences, FiniteSets, TLC

VARIABLES
    nodi,      \* NodoAI.nodi: the registry, an ordered mapping name -> base URL
    DEBUG,     \* app.config['DEBUG']
    API_KEY,   \* the configured gateway key (PyNone when the variable is unset)
    pc,        \* where the process is: idle, or what has just completed
    call,      \* the arguments of the operation in progress / just completed
    sent,      \* outbound requests issued by the operation, in order
    ret,       \* what the dispatcher call returned or raised
    stati,     \* ping_moduli's report under construction
    resto,     \* ping_moduli: the registry entries still to be visited
    http       \* the listener's HTTP response

vars == <<nodi, DEBUG, API_KEY, pc, call, sent, ret, stati, resto, http>>

----------------------------------------------------------------------------
(* Bounds of the model *)

\* longest base URL / endpoint path explored by the URL specification
MaxLen == 3
\* longest remote body explored (longer than the log slice)
MaxBody == 201

(* Program constants *)

\* response.text[:200] in the log lines
LogSlice == 200
\* timeout=15 of the forwarded request
ForwardTimeout == 15
\* timeout=5 of the health check
PingTimeout == 5

----------------------------------------------------------------------------
(* Python values *)

PyNone == [type |-> "NoneType", items |-> <<>>]
PyDict(d) == [type |-> "dict", items |-> d]
PyList(l) == [type |-> "list", items |-> l]
PyStr(s) == [type |-> "str", items |-> s]

\* obj.keys() exists on mappings only
HasKeys(v) == v.type = "dict"

\* Python truthiness of None / str / dict / list values
Truthy(v) == v.type # "NoneType" /\ v.items # <<>>

----------------------------------------------------------------------------
(* Strings *)

Slash == "/"

\* a strip that removes one trailing character only
rstrip_one(s, c) ==
    IF Len(s) > 0 /\ s[Len(s)] = c THEN SubSeq(s, 1, Len(s) - 1) ELSE s

RECURSIVE rstrip(_, _)
\* str.rstrip(c): every trailing c is removed
rstrip(s, c) ==
    IF Len(s) > 0 /\ s[Len(s)] = c
    THEN rstrip(SubSeq(s, 1, Len(s) - 1), c)
    ELSE s

RECURSIVE lstrip(_, _)
\* str.lstrip(c): every leading c is removed
lstrip(s, c) ==
    IF Len(s) > 0 /\ s[1] = c
    THEN lstrip(Tail(s), c)
    ELSE s

\* the strings over alphabet A of length at most n
StringsUpTo(A, n) == UNION {[1..k -> A] : k \in 0..n}


----------------------------------------------------------------------------
(* The registry *)

\* dict.get(name): the stored base URL, or None
get(registry, name) ==
    IF \E i \in 1..Len(registry) : registry[i].nome = name
    THEN PyStr(registry[CHOOSE i \in 1..Len(registry) : registry[i].nome = name].url)
    ELSE PyNone

\* dict.keys()
keys(registry) == {registry[i].nome : i \in 1..Len(registry)}

----------------------------------------------------------------------------
(* The outbound HTTP exchange: what the remote end / the transport does *)

Response(status, len, json) ==
    [kind |-> "response", status |-> status, text |-> [len |-> len, json |-> json],
     exc |-> "-"]

Raises(cls) ==
    [kind |-> "raise", status |-> 0, text |-> [len |-> 0, json |-> FALSE],
     exc |-> cls]

\* the classes an exception is an instance of (requests.exceptions; every
\* class derives from Exception; ConnectTimeout derives from both
\* ConnectionError and Timeout; SSLError derives from ConnectionError)
Mro(cls) ==
    CASE cls = "HTTPError"       -> {"HTTPError", "RequestException", "Exception"}
      [] cls = "ConnectionError" -> {"ConnectionError", "RequestException", "Exception"}
      [] cls = "ConnectTimeout"  -> {"ConnectTimeout", "ConnectionError", "Timeout",
                                     "RequestException", "Exception"}
      [] cls = "ReadTimeout"     -> {"ReadTimeout", "Timeout", "RequestException",
                                     "Exception"}
      [] cls = "SSLError"        -> {"SSLError", "ConnectionError", "RequestException",
                                     "Exception"}
      [] cls = "InvalidURL"      -> {"InvalidURL", "RequestException", "Exception"}
      [] OTHER                   -> {cls, "Exception"}

\* Response.ok, which is also bool(response): raise_for_status() would not raise
ok(response) == ~(400 <= response.status /\ response.status < 600)

\* response.text
response_text(response) == [kind |-> "text", len |-> response.text.len]

\* the value response.json() decodes (defined when the body parses)
response_json(response) == [kind |-> "json", len |-> response.text.len]

\* text[:n]
Slice(text, n) == [text EXCEPT !.len = IF text.len <= n THEN text.len ELSE n]

NoDetails == [kind |-> "absent", len |-> 0]
DetailsNone == [kind |-> "None", len |-> 0]

----------------------------------------------------------------------------
(* NodoAI.inoltra_richiesta *)

\* str.upper() on the method names in use
upper(method) ==
    CASE method = "get"   -> "GET"
      [] method = "post"  -> "POST"
      [] method = "patch" -> "PATCH"
      [] OTHER            -> method

BodyMethods == {"POST", "PUT", "PATCH"}

\* a join that forgets the endpoint's leading slash
full_url_keeps_leading(base_url, endpoint) ==
    rstrip(base_url, Slash) \o <<Slash>> \o endpoint

\* f"{base_url.rstrip('/')}/{endpoint.lstrip('/')}"
full_url(base_url, endpoint) ==
    rstrip(base_url, Slash) \o <<Slash>> \o lstrip(endpoint, Slash)

\* the headers of the outbound request, as a mapping name -> value
effective_headers(method, headers) ==
    LET h == IF headers.type = "NoneType" THEN <<>> ELSE headers.items
    IN  IF upper(method) \in BodyMethods /\ "Content-Type" \notin DOMAIN h
        THEN [k \in DOMAIN h \cup {"Content-Type"} |->
                 IF k = "Content-Type" THEN "application/json" ELSE h[k]]
        ELSE h

\* the json= argument of requests.request
json_arg(method, payload) ==
    IF upper(method) \in BodyMethods THEN payload ELSE PyNone

\* a params= that compares the method without normalising its case
params_arg_case_sensitive(method, payload) ==
    IF method = "GET" THEN payload ELSE PyNone

\* the params= argument of requests.request
params_arg(method, payload) ==
    IF upper(method) = "GET" THEN payload ELSE PyNone

\* the call requests.request(method=, url=, json=, params=, headers=, timeout=)
request(method, url, payload, headers) ==
    [method  |-> upper(method),
     url     |-> url,
     json    |-> json_arg(method, payload),
     params  |-> params_arg(method, payload),
     headers |-> effective_headers(method, headers),
     timeout |-> ForwardTimeout]

Returned(value) == [tag |-> "body", value |-> value]
Raised(cls) == [tag |-> "raise", exc |-> cls]
ErrorRecord(errore, status_code, details) ==
    [tag |-> "error", success |-> FALSE, errore |-> errore,
     status_code |-> status_code, details |-> details]

\* a resolution failure reported as an internal error
not_found_as_500(modulo) == ErrorRecord("non trovato o non configurato", 500, NoDetails)

\* the record returned for a module the registry does not resolve
not_found(modulo) == ErrorRecord("non trovato o non configurato", 404, NoDetails)

\* a 502 record whose details is cut like the log line
invalid_json_truncated(response) ==
    ErrorRecord("Risposta JSON non valida", 502, Slice(response_text(response), LogSlice))

\* the record returned when a 2xx/3xx body is not JSON
invalid_json(response) ==
    ErrorRecord("Risposta JSON non valida", 502, response_text(response))

\* error_details["details"] = e.response.json() if e.response else None,
\* falling back to the raw text when json() raises JSONDecodeError
http_error_details(response) ==
    IF ok(response)
    THEN IF response.text.json THEN response_json(response)
                               ELSE response_text(response)
    ELSE DetailsNone

\* except requests.exceptions.HTTPError (raised by raise_for_status, which
\* always attaches the response)
http_error(response) ==
    ErrorRecord("Errore HTTP dal modulo", response.status, http_error_details(response))

\* the except clauses of the outer try, in source order
ExceptClauses ==
    <<"HTTPError", "ConnectionError", "Timeout", "RequestException", "Exception">>

\* the first except clause that matches an exception of class cls
first_match(cls) ==
    ExceptClauses[CHOOSE i \in 1..Len(ExceptClauses) :
                     /\ ExceptClauses[i] \in Mro(cls)
                     /\ \A j \in 1..(i - 1) : ExceptClauses[j] \notin Mro(cls)]

\* what the matching except clause returns for a transport-level exception
transport_error(cls) ==
    LET clause == first_match(cls)
    IN  CASE clause = "HTTPError" ->       \* e.response is None
                ErrorRecord("Errore HTTP dal modulo", 500, DetailsNone)
          [] clause = "ConnectionError" ->
                ErrorRecord("Errore di connessione", 503, NoDetails)
          [] clause = "Timeout" ->
                ErrorRecord("Timeout durante l'inoltro", 504, NoDetails)
          [] clause = "RequestException" ->
                ErrorRecord("Errore di richiesta generico", 500, NoDetails)
          [] OTHER ->
                ErrorRecord("Errore interno imprevisto", 500, NoDetails)

\* the body of the try block, given what the outbound exchange produced
handle_outcome(outcome) ==
    IF outcome.kind = "raise"
    THEN transport_error(outcome.exc)
    ELSE IF ~ok(outcome)                       \* raise_for_status()
         THEN http_error(outcome)
         ELSE IF outcome.text.json             \* response.json()
              THEN Returned(response_json(outcome))
              ELSE invalid_json(outcome)

\* the whole call: the result (or the exception that escapes) and the
\* outbound requests it issued
inoltra_richiesta(registry, modulo, endpoint, payload, method, headers, outcome) ==
    LET base_url == get(registry, modulo)
    IN  IF ~Truthy(base_url)
        THEN [ret |-> not_found(modulo), sent |-> <<>>]
        ELSE IF ~HasKeys(payload)              \* payload.keys() in the log line
             THEN [ret |-> Raised("AttributeError"), sent |-> <<>>]
             ELSE [ret  |-> handle_outcome(outcome),
                   sent |-> <<request(method, full_url(base_url.items, endpoint),
                                      payload, headers)>>]

----------------------------------------------------------------------------
(* NodoAI.ping_moduli *)

\* a health test that accepts the whole success range
ping_status_ok_range(outcome) ==
    outcome.kind = "response" /\ outcome.status < 400

\* stati[nome] for one module: True only for a response with status 200;
\* every except clause stores False
ping_status(outcome) ==
    outcome.kind = "response" /\ outcome.status = 200

\* stati[nome] = value
setitem(mapping, key, value) ==
    [k \in DOMAIN mapping \cup {key} |-> IF k = key THEN value ELSE mapping[k]]

\* requests.get(url.rstrip('/'), timeout=5)
ping_request(url) ==
    [method |-> "GET", url |-> rstrip(url, Slash), json |-> PyNone,
     params |-> PyNone, headers |-> <<>>, timeout |-> PingTimeout]

----------------------------------------------------------------------------
(* Inputs *)

Names == {"traduzione", "voce"}

\* module names a caller may ask for: the registered ones and a stranger
ModuleArgs == Names \cup {"missing"}

RegUrls == {<<>>, <<"u">>, <<"u", "/">>}

\* ordered mappings of distinct names to base URLs
Registries ==
    {r \in UNION {[1..k -> [nome : Names, url : RegUrls]] : k \in 0..Cardinality(Names)} :
        \A i, j \in 1..Len(r) : i # j => r[i].nome # r[j].nome}

Endpoints == {<<"e">>, <<"/", "e">>}

Payloads == {PyDict(<<>>), PyDict([k \in {"q"} |-> "v"]), PyList(<<"x">>)}

Methods == {"GET", "get", "POST", "PUT", "patch", "DELETE"}

HeaderArgs ==
    {PyNone, PyDict(<<>>), PyDict([k \in {"Content-Type"} |-> "text/plain"])}

BodyLens == {0, 1, MaxBody}

\* remote bodies: the empty text never parses as JSON
Bodies == {b \in [len : BodyLens, json : BOOLEAN] : b.json => b.len > 0}

ForwardStatuses == {200, 404, 500}

TransportFaults ==
    {"ConnectionError", "ConnectTimeout", "ReadTimeout", "SSLError", "InvalidURL",
     "TypeError"}

Outcomes ==
    {Response(s, b.len, b.json) : s \in ForwardStatuses, b \in Bodies}
        \cup {Raises(c) : c \in TransportFaults}

PingStatuses == {200, 204, 301, 404, 500}

PingOutcomes ==
    {Response(s, 0, FALSE) : s \in PingStatuses}
        \cup {Raises(c) : c \in {"ConnectionError", "ReadTimeout", "InvalidURL", "TypeError"}}

NoOutcome == Raises("-")
NoCall == [op |-> "-"]
NoRet == [tag |-> "-"]
NoHttp == [status |-> 0]

----------------------------------------------------------------------------
(* The dispatcher, called directly *)

Init ==
    /\ nodi \in Registries
    /\ DEBUG = FALSE
    /\ API_KEY = PyNone
    /\ pc = "idle"
    /\ call = NoCall
    /\ sent = <<>>
    /\ ret = NoRet
    /\ stati = <<>>
    /\ resto = <<>>
    /\ http = NoHttp

\* one call of inoltra_richiesta
ForwardCall(modulo, endpoint, payload, method, headers, outcome) ==
    LET r == inoltra_richiesta(nodi, modulo, endpoint, payload, method, headers, outcome)
    IN  /\ pc' = "forwarded"
        /\ call' = [op |-> "inoltra_richiesta", modulo |-> modulo,
                    endpoint |-> endpoint, payload |-> payload, method |-> method,
                    headers |-> headers,
                    outcome |-> IF r.sent = <<>> THEN NoOutcome ELSE outcome]
        /\ ret' = r.ret
        /\ sent' = r.sent
        /\ UNCHANGED <<nodi, DEBUG, API_KEY, stati, resto, http>>

Forward ==
    /\ pc = "idle"
    /\ \E modulo \in ModuleArgs, endpoint \in Endpoints, payload \in Payloads,
          method \in Methods, headers \in HeaderArgs, outcome \in Outcomes :
           ForwardCall(modulo, endpoint, payload, method, headers, outcome)

\* ping_moduli starts: stati = {}, and the for loop takes the registry's items
PingStart ==
    /\ pc = "idle"
    /\ \E env \in [keys(nodi) -> PingOutcomes] :
          call' = [op |-> "ping_moduli", env |-> env]
    /\ pc' = "pinging"
    /\ stati' = <<>>
    /\ resto' = nodi
    /\ sent' = <<>>
    /\ UNCHANGED <<nodi, DEBUG, API_KEY, ret, http>>

\* one iteration of the for loop: the GET and the entry it stores
PingStep ==
    /\ pc = "pinging"
    /\ resto # <<>>
    /\ LET item == Head(resto)
       IN  /\ sent' = Append(sent, ping_request(item.url))
           /\ stati' = setitem(stati, item.nome, ping_status(call.env[item.nome]))
    /\ resto' = Tail(resto)
    /\ UNCHANGED <<nodi, DEBUG, API_KEY, pc, call, ret, http>>

\* return stati
PingReturn ==
    /\ pc = "pinging"
    /\ resto = <<>>
    /\ pc' = "pinged"
    /\ ret' = [tag |-> "report", value |-> stati]
    /\ UNCHANGED <<nodi, DEBUG, API_KEY, call, sent, stati, resto, http>>

\* the caller has the result; the dispatcher keeps nothing of the call
Return ==
    /\ pc \in {"forwarded", "pinged", "responded"}
    /\ pc' = "idle"
    /\ call' = NoCall
    /\ sent' = <<>>
    /\ ret' = NoRet
    /\ stati' = <<>>
    /\ resto' = <<>>
    /\ http' = NoHttp
    /\ UNCHANGED <<nodi, DEBUG, API_KEY>>

Next == Forward \/ PingStart \/ PingStep \/ PingReturn \/ Return

Spec == Init /\ [][Next]_vars

----------------------------------------------------------------------------
(* URL composition: the forwarder over a wide range of base URLs and paths *)

BaseUrls == StringsUpTo({"u", Slash}, MaxLen)

EndpointPaths == StringsUpTo({"e", Slash}, MaxLen)

InitUrl ==
    /\ \E b \in BaseUrls : nodi = <<[nome |-> "traduzione", url |-> b]>>
    /\ DEBUG = FALSE
    /\ API_KEY = PyNone
    /\ pc = "idle"
    /\ call = NoCall
    /\ sent = <<>>
    /\ ret = NoRet
    /\ stati = <<>>
    /\ resto = <<>>
    /\ http = NoHttp

ForwardUrl ==
    /\ pc = "idle"
    /\ \E endpoint \in EndpointPaths, method \in {"GET", "POST"} :
          ForwardCall("traduzione", endpoint, PyDict(<<>>), method, PyNone,
                      Response(200, 1, TRUE))

NextUrl == ForwardUrl \/ Return

SpecUrl == InitUrl /\ [][NextUrl]_vars

\* a forwarded request has gone out
Forwarded == pc = "forwarded" /\ sent # <<>>

\* the base URL the call resolved, and the URL it requested
CallBase == get(nodi, call.modulo).items
SentUrl == sent[1].url

\* n slashes
Slashes(n) == [i \in 1..n |-> Slash]

\* non-empty bases that do not end in a slash; paths that do not start with one
Stems == {b \in BaseUrls : b # <<>> /\ b[Len(b)] # Slash}
Paths == {e \in EndpointPaths : e = <<>> \/ e[1] # Slash}

\* C6: for a base written with 0 or 1 trailing slash and an endpoint written
\* with 0 or 1 leading slash, the requested URL is stem "/" path in all four
\* combinations: the same string, with exactly one slash at the boundary.
C6_BoundarySlashInsensitive ==
    Forwarded =>
        \A stem \in Stems, path \in Paths, i \in 0..1, j \in 0..1 :
            (CallBase = stem \o Slashes(i) /\ call.endpoint = Slashes(j) \o path)
                => SentUrl = stem \o <<Slash>> \o path

\* C6 witness: base with a trailing slash and endpoint with a leading slash
C6_Witness ==
    /\ Forwarded
    /\ CallBase = <<"u", Slash>>
    /\ call.endpoint = <<Slash, "e">>
    /\ SentUrl = <<"u", Slash, "e">>

\* at most one trailing slash removed
StripOneTrailing(s) ==
    IF s # <<>> /\ s[Len(s)] = Slash THEN SubSeq(s, 1, Len(s) - 1) ELSE s

\* at most one leading slash removed
StripOneLeading(s) ==
    IF s # <<>> /\ s[1] = Slash THEN Tail(s) ELSE s

\* C7 as claimed: exactly one slash is stripped on each side, so of k >= 2
\* boundary slashes k-1 are kept in the composed URL.
C7_StripsExactlyOne ==
    (/\ Forwarded
     /\ \/ (Len(CallBase) >= 2 /\ SubSeq(CallBase, Len(CallBase) - 1, Len(CallBase)) = Slashes(2))
        \/ (Len(call.endpoint) >= 2 /\ SubSeq(call.endpoint, 1, 2) = Slashes(2)))
        => SentUrl = StripOneTrailing(CallBase) \o <<Slash>>
                         \o StripOneLeading(call.endpoint)

\* C7 amended: every trailing slash of the base and every leading slash of
\* the endpoint is stripped; with k >= 2 slashes on a side none of them is
\* kept, and the URL has exactly one slash at the boundary.
C7_StripsAllBoundarySlashes ==
    Forwarded =>
        \A stem \in Stems \cup {<<>>}, path \in Paths, i \in 0..MaxLen, j \in 0..MaxLen :
            (/\ i >= 2 \/ j >= 2
             /\ CallBase = stem \o Slashes(i)
             /\ call.endpoint = Slashes(j) \o path)
                => SentUrl = stem \o <<Slash>> \o path

\* C7 witness: two trailing slashes on the base, two leading on the endpoint
C7_Witness ==
    /\ Forwarded
    /\ CallBase = <<"u", Slash, Slash>>
    /\ call.endpoint = <<Slash, Slash, "e">>
    /\ SentUrl = <<"u", Slash, "e">>

----------------------------------------------------------------------------
(* Properties of the dispatcher called directly (specification Spec) *)

ForwardDone == pc = "forwarded"

\* C1 as claimed: every call of inoltra_richiesta, whatever the payload and
\* whatever the outbound exchange does, ends by returning a ForwardResult;
\* no exception escapes to the caller.
C1_ForwardAlwaysReturns ==
    ForwardDone => ret.tag \in {"body", "error"}

\* C2: a module name that is not in the registry gives an error record with
\* success = false and status_code = 404, and no outbound request is issued.
C2_UnknownModule404NoRequest ==
    (ForwardDone /\ call.modulo \notin keys(nodi)) =>
        /\ ret.tag = "error"
        /\ ret.success = FALSE
        /\ ret.status_code = 404
        /\ sent = <<>>

\* C2 witness: a call for a stranger, made with a non-empty registry
C2_Witness ==
    /\ ForwardDone
    /\ nodi # <<>>
    /\ call.modulo = "missing"
    /\ ret.tag = "error"
    /\ ret.status_code = 404
    /\ sent = <<>>

\* the status the error table assigns to each transport-level fault
ClaimedFaultStatus(cls) ==
    CASE cls = "ConnectionError" -> 503     \* refused / unreachable
      [] cls = "ConnectTimeout"  -> 504     \* timeout while connecting
      [] cls = "ReadTimeout"     -> 504     \* timeout while waiting for the response
      [] cls = "SSLError"        -> 500     \* TLS
      [] cls = "InvalidURL"      -> 500     \* malformed request

\* C3 as claimed: refused connection -> 503, timeout (connecting or reading)
\* -> 504, any other transport-level fault -> 500, each as an error record
\* with success = false.
C3_TransportFaultStatus ==
    (/\ Forwarded
     /\ call.outcome.kind = "raise"
     /\ call.outcome.exc \in {"ConnectionError", "ConnectTimeout", "ReadTimeout",
                              "SSLError", "InvalidURL"}) =>
        /\ ret.tag = "error"
        /\ ret.success = FALSE
        /\ ret.status_code = ClaimedFaultStatus(call.outcome.exc)

\* C4 as claimed: a remote status >= 400 gives an error record whose
\* status_code is the remote's status and whose details is the remote body,
\* decoded when it parses as JSON and raw otherwise.
C4_RemoteErrorCarriesBody ==
    (/\ Forwarded
     /\ call.outcome.kind = "response"
     /\ call.outcome.status >= 400) =>
        /\ ret.tag = "error"
        /\ ret.success = FALSE
        /\ ret.status_code = call.outcome.status
        /\ ret.details = IF call.outcome.text.json
                         THEN [kind |-> "json", len |-> call.outcome.text.len]
                         ELSE [kind |-> "text", len |-> call.outcome.text.len]

\* a successful status with a body that does not parse as JSON
InvalidJsonAnswer ==
    /\ Forwarded
    /\ call.outcome.kind = "response"
    /\ call.outcome.status < 400
    /\ ~call.outcome.text.json

\* C5 as claimed: the 502 record's details is the raw body cut to a bounded
\* length, never the full body when the body is longer than the bound.
C5_InvalidJsonDetailsTruncated ==
    InvalidJsonAnswer =>
        /\ ret.tag = "error"
        /\ ret.success = FALSE
        /\ ret.status_code = 502
        /\ ret.details.kind = "text"
        /\ ret.details.len <= LogSlice

\* C5 amended: the 502 record's details is the whole raw body, whatever its
\* length (only the log line is cut to 200 characters).
C5_InvalidJsonDetailsWhole ==
    InvalidJsonAnswer =>
        /\ ret.tag = "error"
        /\ ret.success = FALSE
        /\ ret.status_code = 502
        /\ ret.details = [kind |-> "text", len |-> call.outcome.text.len]

\* C5 witness: a non-JSON body longer than the log slice, returned whole
C5_Witness ==
    /\ InvalidJsonAnswer
    /\ call.outcome.text.len > LogSlice
    /\ ret.tag = "error"
    /\ ret.status_code = 502
    /\ ret.details.len = call.outcome.text.len

\* C8: the report's keys are exactly the registered names; an entry is true
\* iff that module's GET returned status 200, false for any other status or
\* any exception; every module is checked whatever happened to the others,
\* and the report does not depend on the order of the registry.
C8_HealthReport ==
    pc = "pinged" =>
        /\ DOMAIN ret.value = keys(nodi)
        /\ \A n \in keys(nodi) :
              ret.value[n] = (call.env[n].kind = "response" /\ call.env[n].status = 200)
        /\ Len(sent) = Len(nodi)

\* C8 witness: the first module's check raised, the second answered 200
C8_Witness ==
    /\ pc = "pinged"
    /\ Len(nodi) = 2
    /\ call.env[nodi[1].nome].kind = "raise"
    /\ call.env[nodi[2].nome].status = 200
    /\ ret.value[nodi[1].nome] = FALSE
    /\ ret.value[nodi[2].nome] = TRUE

\* C9: GET sends the payload as query parameters and no JSON body; POST, PUT
\* and PATCH send it as a JSON body and no query parameters; any other
\* method attaches it in neither place; the method's case does not matter.
C9_PayloadPlacement ==
    Forwarded =>
        /\ call.method \in {"GET", "get"} =>
              (sent[1].params = call.payload /\ sent[1].json = PyNone)
        /\ call.method \in {"POST", "post", "PUT", "put", "PATCH", "patch"} =>
              (sent[1].json = call.payload /\ sent[1].params = PyNone)
        /\ call.method \in {"DELETE", "delete"} =>
              (sent[1].json = PyNone /\ sent[1].params = PyNone)

\* C9 witness: a lower-case get with a non-empty payload
C9_Witness ==
    /\ Forwarded
    /\ call.method = "get"
    /\ call.payload = PyDict([k \in {"q"} |-> "v"])
    /\ sent[1].method = "GET"
    /\ sent[1].params = call.payload
    /\ sent[1].json = PyNone

----------------------------------------------------------------------------
(* The Flask listener (nodo_server.py) *)

\* what running a view (or a decorator around it) comes to: the response it
\* returns, or the exception it raises (abort(code) raises an HTTPException,
\* which is an Exception), with the dispatcher call it made, if any
ViewReturns(status, body, r) ==
    [kind |-> "return", status |-> status, body |-> body, exc |-> "-",
     ret |-> r.ret, sent |-> r.sent]
ViewRaises(cls, r) ==
    [kind |-> "raise", status |-> 0, body |-> NoRet, exc |-> cls,
     ret |-> r.ret, sent |-> r.sent]
abort(code, r) ==
    [kind |-> "raise", status |-> code, body |-> NoRet, exc |-> "HTTPException",
     ret |-> r.ret, sent |-> r.sent]

\* the dispatcher was not called
NotDispatched == [ret |-> NoRet, sent |-> <<>>]

\* jsonify(value): a 200 response carrying the value
jsonify(value, r) == ViewReturns(200, value, r)

\* str.lower() on the header names in use
lower(name) ==
    CASE name = "Host"         -> "host"
      [] name = "X-API-Key"    -> "x-api-key"
      [] name = "Content-Type" -> "content-type"
      [] OTHER                 -> name

\* the headers of an inbound request
request_headers(req) ==
    [k \in {"Host"}
          \cup (IF req.key.type = "NoneType" THEN {} ELSE {"X-API-Key"})
          \cup (IF req.content \in {"json_dict", "json_list", "form"}
                THEN {"Content-Type"} ELSE {}) |->
        CASE k = "Host" -> PyStr(<<"g", "w">>)
          [] k = "X-API-Key" -> req.key
          [] OTHER -> IF req.content = "form" THEN PyStr(<<"f">>) ELSE PyStr(<<"j">>)]

\* request.headers.get('X-API-Key')
client_api_key(req) ==
    IF "X-API-Key" \in DOMAIN request_headers(req)
    THEN request_headers(req)["X-API-Key"]
    ELSE PyNone

\* the headers passed on: host, content-length and x-api-key dropped, the
\* gateway's own key added when one is configured
forward_headers(req) ==
    LET h == request_headers(req)
        kept == {k \in DOMAIN h : lower(k) \notin {"host", "content-length", "x-api-key"}}
    IN  [k \in kept \cup (IF Truthy(API_KEY) THEN {"X-API-Key"} ELSE {}) |->
            IF k = "X-API-Key" /\ Truthy(API_KEY) THEN API_KEY ELSE h[k]]

\* the payload the view builds from the request; "AttributeError" when the
\* JSON body is not a mapping (payload.keys() in the debug line)
view_payload(req) ==
    IF req.method \in {"POST", "PUT"}
    THEN CASE req.content = "json_dict" -> PyDict(req.data)
           [] req.content = "json_list" -> PyList(<<"x">>)
           [] req.content = "form"      -> PyDict(req.data)
           [] OTHER                     -> PyDict(<<>>)
    ELSE IF req.method = "GET"
         THEN PyDict(req.args)
         ELSE PyDict(<<>>)

\* the view inoltra(modulo, endpoint)
inoltra(req, outcome) ==
    IF req.modulo \notin keys(nodi)
    THEN abort(404, NotDispatched)
    ELSE IF ~HasKeys(view_payload(req))
         THEN ViewRaises("AttributeError", NotDispatched)
         ELSE LET r == inoltra_richiesta(nodi, req.modulo, req.endpoint,
                                         view_payload(req), req.method,
                                         PyDict(forward_headers(req)), outcome)
              IN  IF r.ret.tag = "raise"
                  THEN abort(500, r)
                  ELSE jsonify(r.ret, r)

\* the decorator handle_api_exceptions around a view's outcome
handle_api_exceptions(view) ==
    IF view.kind = "raise"
    THEN abort(500, [ret |-> view.ret, sent |-> view.sent])
    ELSE view

\* a key check that only asks for some key to be present
require_api_key_presence_only(req, view) ==
    IF DEBUG
    THEN view
    ELSE IF ~Truthy(API_KEY)
         THEN abort(500, NotDispatched)
         ELSE IF ~Truthy(client_api_key(req))
              THEN abort(401, NotDispatched)
              ELSE view

\* the decorator require_api_key around a view's outcome: the view runs only
\* when the decorator reaches it
require_api_key(req, view) ==
    IF DEBUG
    THEN view
    ELSE IF ~Truthy(API_KEY)
         THEN abort(500, NotDispatched)
         ELSE IF ~Truthy(client_api_key(req)) \/ client_api_key(req) # API_KEY
              THEN abort(401, NotDispatched)
              ELSE view

\* Flask's answer: a returned response as it is, an HTTPException through the
\* error handler registered for its code (400, 401, 404, 405, 500)
flask_response(view) ==
    IF view.kind = "return"
    THEN [status |-> view.status, body |-> view.body]
    ELSE [status |-> view.status,
          body |-> ErrorRecord("error handler", view.status, NoDetails)]

RECURSIVE ping_moduli(_, _)
\* NodoAI.ping_moduli as one call: the report and the GETs issued, the
\* registry visited in order
ping_moduli(registry, env) ==
    IF registry = <<>>
    THEN [stati |-> <<>>, sent |-> <<>>]
    ELSE LET n == Len(registry)
             before == ping_moduli(SubSeq(registry, 1, n - 1), env)
             item == registry[n]
         IN  [stati |-> setitem(before.stati, item.nome, ping_status(env[item.nome])),
              sent  |-> Append(before.sent, ping_request(item.url))]

\* the view ping_modules()
ping_modules(env) ==
    LET r == ping_moduli(nodi, env)
        module_statuses == r.stati
    IN  jsonify([module_health |-> module_statuses,
                 active_modules_count |->
                     Cardinality({n \in DOMAIN module_statuses : module_statuses[n]}),
                 total_modules_configured |-> Len(nodi)],
                [ret |-> [tag |-> "report", value |-> module_statuses],
                 sent |-> r.sent])

ServerRegistries ==
    {r \in Registries : Len(r) = 2 /\ r[1].nome = "traduzione" /\ r[2].url = <<"u">>}

Keys == {PyNone, PyStr(<<>>), PyStr(<<"k">>), PyStr(<<"x">>)}

Requests ==
    [method : {"GET", "POST", "PUT", "DELETE"},
     modulo : ModuleArgs,
     endpoint : {<<"e">>},
     key : Keys,
     content : {"none", "json_dict", "json_list", "form"},
     data : {[k \in {"q"} |-> "v"]},
     args : {<<>>, [k \in {"q"} |-> "v"]}]

InitServer ==
    /\ nodi \in ServerRegistries
    /\ DEBUG \in BOOLEAN
    /\ API_KEY \in {PyNone, PyStr(<<>>), PyStr(<<"k">>)}
    /\ pc = "idle"
    /\ call = NoCall
    /\ sent = <<>>
    /\ ret = NoRet
    /\ stati = <<>>
    /\ resto = <<>>
    /\ http = NoHttp

\* one request to /inoltra/<modulo>/<endpoint>, through both decorators
Inoltra ==
    /\ pc = "idle"
    /\ \E req \in Requests, outcome \in Outcomes :
          LET v == require_api_key(req, handle_api_exceptions(inoltra(req, outcome)))
          IN  /\ call' = [op |-> "inoltra", request |-> req,
                          outcome |-> IF v.sent = <<>> THEN NoOutcome ELSE outcome]
              /\ ret' = v.ret
              /\ sent' = v.sent
              /\ http' = flask_response(v)
    /\ pc' = "responded"
    /\ UNCHANGED <<nodi, DEBUG, API_KEY, stati, resto>>

NoEnv == <<>>

\* one request to /ping, through both decorators
Ping ==
    /\ pc = "idle"
    /\ \E key \in Keys, env \in [keys(nodi) -> PingOutcomes] :
          LET req == [key |-> key, content |-> "none"]
              v == require_api_key(req, handle_api_exceptions(ping_modules(env)))
          IN  /\ call' = [op |-> "ping", request |-> req,
                          env |-> IF v.sent = <<>> THEN NoEnv ELSE env]
              /\ ret' = v.ret
              /\ sent' = v.sent
              /\ http' = flask_response(v)
    /\ pc' = "responded"
    /\ UNCHANGED <<nodi, DEBUG, API_KEY, stati, resto>>

NextServer == Inoltra \/ Ping \/ Return

SpecServer == InitServer /\ [][NextServer]_vars

\* C10 as claimed: when forward returns an error record the response status
\* is that record's status_code, and the response status is 200 only when
\* forward returned a successful body.
C10_StatusFromForwardResult ==
    (pc = "responded" /\ call.op = "inoltra") =>
        /\ ret.tag = "error" => http.status = ret.status_code
        /\ http.status = 200 => ret.tag = "body"

\* the request passed the key check: debug mode, or the configured key sent
Authenticated ==
    DEBUG \/ (Truthy(API_KEY) /\ call.request.key = API_KEY)

\* C11 as claimed: an authenticated /inoltra request for a module that is not
\* in the configured map is answered with status 404, without forward being
\* called; the 404 raised in the view survives handle_api_exceptions.
C11_UnknownModuleAnswered404 ==
    (/\ pc = "responded"
     /\ call.op = "inoltra"
     /\ Authenticated
     /\ call.request.modulo \notin keys(nodi)) =>
        /\ http.status = 404
        /\ ret.tag = "-"
        /\ sent = <<>>

\* the dispatcher was called (ping_moduli or inoltra_richiesta), or an
\* outbound request went to a module
Dispatched == ret.tag # "-" \/ sent # <<>>

\* the X-API-Key header is missing or differs from the configured key
KeyMissingOrWrong ==
    call.request.key.type = "NoneType" \/ call.request.key # API_KEY

\* C12: outside debug mode a /ping or /inoltra request is answered 500 when
\* no key is configured and 401 when its X-API-Key is missing or differs
\* from the configured key, and in neither case is the dispatcher called or
\* an outbound request issued; the dispatcher is reached only after the key
\* matched or in debug mode.
C12_KeyCheckShortCircuits ==
    pc = "responded" =>
        /\ (~DEBUG /\ ~Truthy(API_KEY)) =>
              (http.status = 500 /\ ~Dispatched)
        /\ (~DEBUG /\ Truthy(API_KEY) /\ KeyMissingOrWrong) =>
              (http.status = 401 /\ ~Dispatched)
        /\ Dispatched => Authenticated

\* C12 witness: a /ping with a wrong key, refused before any module is asked
C12_Witness ==
    /\ pc = "responded"
    /\ call.op = "ping"
    /\ ~DEBUG
    /\ API_KEY = PyStr(<<"k">>)
    /\ call.request.key = PyStr(<<"x">>)
    /\ http.status = 401
    /\ ~Dispatched

=============================================================================
